---- MODULE Spec2Model ----
(***************************************************************************)
(* A model of the generic PostgresRepository                               *)
(* (src/core/database/postgresql/repository.py) and of the cached          *)
(* health-check endpoint (src/apis/health_check.py).                       *)
(*                                                                         *)
(* Three specifications share the module:                                  *)
(*   SpecSession  create / delete / update against one session             *)
(*   SpecQuery    get_all / get_by / _maybe_join against one table         *)
(*   SpecCache    GET requests to the cached health-check handler          *)
(***************************************************************************)
EXTENDS Integers, Sequences, FiniteSets, TLC

VARIABLES
    objs,       \* session spec: the in-memory model instances, by identity
    db,         \* session spec: the committed rows, by identity
    new,        \* session spec: session.new, instances pending INSERT
    deleted,    \* session spec: session.deleted, instances pending DELETE
    commits,    \* session spec: number of session.commit() calls so far
    last,       \* session spec: the last repository call, its outcome, the state before it
    nops,       \* session spec: number of repository calls so far
    table,      \* query spec: the rows of the model's table, in the order the database yields them
    qcall,      \* query spec: the query call in progress (op = "idle" when none)
    qres,       \* query spec: what the call returned or raised
    now,        \* cache spec: the clock, in seconds
    cache,      \* cache spec: the cache entries, by key
    runs,       \* cache spec: number of executions of HealthCheck.get's body
    req,        \* cache spec: the last request, its answer and the state before it
    seen        \* cache spec: per test1 value, the last request and the last run of the handler

vars == <<objs, db, new, deleted, commits, last, nops,
          table, qcall, qres, now, cache, runs, req, seen>>
sessionVars == <<objs, db, new, deleted, commits, last, nops>>
queryVars == <<table, qcall, qres>>
cacheVars == <<now, cache, runs, req, seen>>

(***************************************************************************)
(* Bounds of the model.                                                    *)
(***************************************************************************)
MaxModels == 2      \* identities available to the session spec
MaxOps == 3         \* repository calls in one session

(***************************************************************************)
(* The model class: two declared columns and the read-only property        *)
(* as_dict of class Model.                                                 *)
(***************************************************************************)
None == "None"
Fields == {"a", "b"}
Properties == {"as_dict"}
Keys == Fields \cup Properties \cup {"zzz"}
\* the value a caller supplies, and the value of the rows committed earlier
Vals == {"v1"}
Ids == 1..MaxModels
\* an attributes mapping holds at most as many entries as the model has columns
MaxAttrs == Cardinality(Fields)

\* An instance that does not exist (never constructed, or gone after its
\* DELETE was committed), and a row that is not in the table.
Absent == [exists |-> FALSE, a |-> None, b |-> None]
\* A freshly constructed instance: every column at its declared default.
Blank == [exists |-> TRUE, a |-> None, b |-> None]
\* A row committed before the session began.
Seed == [exists |-> TRUE, a |-> "v0", b |-> "v0"]

\* An attributes mapping is a dict: its entries in insertion order, keys distinct.
Pair == [k : Keys, v : Vals]
RECURSIVE SeqsUpTo(_, _)
SeqsUpTo(S, n) ==
    IF n = 0 THEN {<<>>}
    ELSE LET shorter == SeqsUpTo(S, n - 1)
         IN  shorter \cup {Append(s, x) : s \in {t \in shorter : Len(t) = n - 1}, x \in S}
AttrDicts ==
    {d \in SeqsUpTo(Pair, MaxAttrs) :
        \A i, j \in 1..Len(d) : i # j => d[i].k # d[j].k}
Range(f) == {f[i] : i \in DOMAIN f}
DictKeys(d) == {d[i].k : i \in 1..Len(d)}
DictGet(d, key) == (CHOOSE i \in 1..Len(d) : d[i].k = key)

(***************************************************************************)
(* The session, as far as the repository uses it.  A session state is the  *)
(* record S of the five session variables.                                 *)
(***************************************************************************)
Cur == [objs |-> objs, db |-> db, new |-> new, deleted |-> deleted, commits |-> commits]

\* persistent: the instance has a row (it was loaded or flushed)
Persistent(S, m) == S.objs[m].exists /\ S.db[m].exists /\ m \notin S.new
\* The staged, not yet committed changes: pending inserts, pending deletes
\* and modified persistent instances.
Staged(S) ==
    S.new \cup S.deleted \cup {m \in Ids : Persistent(S, m) /\ S.objs[m] # S.db[m]}

\* session.add(model): a transient instance becomes pending; a persistent
\* one stays attached, and a pending DELETE of it is cancelled.
SessionAdd(S, m) ==
    IF Persistent(S, m)
    THEN [S EXCEPT !.deleted = @ \ {m}]
    ELSE [S EXCEPT !.new = @ \cup {m}]

\* session.delete(model) marks a persistent instance; an instance that is
\* not persisted is refused.
SessionDeleteOk(S, m) == Persistent(S, m)
SessionDelete(S, m) == [S EXCEPT !.deleted = @ \cup {m}]

\* session.commit(): flush the pending inserts, updates and deletes.
SessionCommit(S) ==
    [S EXCEPT
        !.db = [i \in Ids |->
                  IF i \in S.deleted THEN Absent
                  ELSE IF S.objs[i].exists THEN S.objs[i]
                  ELSE S.db[i]],
        !.objs = [i \in Ids |-> IF i \in S.deleted THEN Absent ELSE S.objs[i]],
        !.new = {},
        !.deleted = {},
        !.commits = @ + 1]

(***************************************************************************)
(* hasattr / setattr on a model instance.                                  *)
(***************************************************************************)
HasAttr(key) == key \in Fields \cup Properties
\* setattr succeeds on a column and raises AttributeError on the property,
\* which has no setter.
CanSetAttr(key) == key \in Fields
SetAttr(obj, key, value) == [obj EXCEPT ![key] = value]

\* model_class(**attributes): the declarative constructor refuses a name
\* that is not an attribute of the class (TypeError) and cannot assign the
\* property (AttributeError); otherwise it sets the given columns.
ConstructOk(d) == \A key \in DictKeys(d) : HasAttr(key) /\ CanSetAttr(key)
RECURSIVE Construct(_, _)
Construct(obj, d) ==
    IF d = <<>> THEN obj
    ELSE Construct(SetAttr(obj, Head(d).k, Head(d).v), Tail(d))

\* The identity the next constructed instance gets.
FreeIds(S) == {i \in Ids : ~S.objs[i].exists /\ ~S.db[i].exists}
NextId(S) == CHOOSE i \in FreeIds(S) : \A j \in FreeIds(S) : i <= j

(***************************************************************************)
(* The repository's mutating operations.  Each maps a session state and    *)
(* the call's arguments to [S: the state after, out: "ok" or the error,    *)
(* ret: the identity of the returned model, 0 when none].                  *)
(***************************************************************************)
NoArgs == <<>>

\* a create that also commits
create_committing(S, given, attributes) ==
    LET d == IF given THEN attributes ELSE NoArgs
        m == NextId(S)
    IN  IF ~ConstructOk(d)
        THEN [S |-> S, out |-> "error", ret |-> 0]
        ELSE [S |-> SessionCommit(SessionAdd(
                        [S EXCEPT !.objs[m] = Construct(Blank, d)], m)),
              out |-> "ok", ret |-> m]

\* a create that adds to the session before the constructor has accepted
\* the attributes
create_add_first(S, given, attributes) ==
    LET d == IF given THEN attributes ELSE NoArgs
        m == NextId(S)
    IN  IF ~ConstructOk(d)
        THEN [S |-> SessionAdd([S EXCEPT !.objs[m] = Blank], m),
              out |-> "error", ret |-> 0]
        ELSE [S |-> SessionAdd([S EXCEPT !.objs[m] = Construct(Blank, d)], m),
              out |-> "ok", ret |-> m]

\* create(attributes): attributes = None is the empty mapping.
create(S, given, attributes) ==
    LET d == IF given THEN attributes ELSE NoArgs
        m == NextId(S)
    IN  IF ~ConstructOk(d)
        THEN [S |-> S, out |-> "error", ret |-> 0]
        ELSE [S |-> SessionAdd([S EXCEPT !.objs[m] = Construct(Blank, d)], m),
              out |-> "ok", ret |-> m]

\* delete(model)
delete(S, m) ==
    IF SessionDeleteOk(S, m)
    THEN [S |-> SessionDelete(S, m), out |-> "ok", ret |-> 0]
    ELSE [S |-> S, out |-> "error", ret |-> 0]

\* The loop of update: setattr for every key the model has, in the
\* mapping's order; it stops at the first key whose setattr raises.
RECURSIVE SetLoop(_, _)
\* a loop without the hasattr guard, raising on a key the model lacks
SetLoop_raise_unknown(obj, d) ==
    IF d = <<>> THEN [obj |-> obj, out |-> "ok"]
    ELSE IF ~CanSetAttr(Head(d).k) THEN [obj |-> obj, out |-> "error"]
    ELSE SetLoop(SetAttr(obj, Head(d).k, Head(d).v), Tail(d))

SetLoop(obj, d) ==
    IF d = <<>> THEN [obj |-> obj, out |-> "ok"]
    ELSE IF ~HasAttr(Head(d).k) THEN SetLoop(obj, Tail(d))
    ELSE IF ~CanSetAttr(Head(d).k) THEN [obj |-> obj, out |-> "error"]
    ELSE SetLoop(SetAttr(obj, Head(d).k, Head(d).v), Tail(d))

\* an update that stages without committing
update_no_commit(S, m, attributes) ==
    LET loop == SetLoop(S.objs[m], attributes)
        S1 == [S EXCEPT !.objs[m] = loop.obj]
    IN  IF loop.out # "ok"
        THEN [S |-> S1, out |-> "error", ret |-> 0]
        ELSE [S |-> SessionAdd(S1, m), out |-> "ok", ret |-> m]

\* update(model, attributes)
update(S, m, attributes) ==
    LET loop == SetLoop(S.objs[m], attributes)
        S1 == [S EXCEPT !.objs[m] = loop.obj]
    IN  IF loop.out # "ok"
        THEN [S |-> S1, out |-> "error", ret |-> 0]
        ELSE [S |-> SessionCommit(SessionAdd(S1, m)), out |-> "ok", ret |-> m]

(***************************************************************************)
(* The session specification.                                              *)
(***************************************************************************)
Apply(r, op, m, given, attrs) ==
    /\ objs' = r.S.objs
    /\ db' = r.S.db
    /\ new' = r.S.new
    /\ deleted' = r.S.deleted
    /\ commits' = r.S.commits
    /\ last' = [op |-> op, out |-> r.out, ret |-> r.ret, model |-> m,
                given |-> given, attrs |-> attrs, pre |-> Cur]
    /\ nops' = nops + 1

Create ==
    /\ nops < MaxOps
    /\ FreeIds(Cur) # {}
    /\ \E given \in BOOLEAN :
         \E attributes \in (IF given THEN AttrDicts ELSE {NoArgs}) :
            Apply(create(Cur, given, attributes), "create", 0, given, attributes)
    /\ UNCHANGED <<queryVars, cacheVars>>

\* The caller passes an instance it holds: a pending or a persistent one.
Delete ==
    /\ nops < MaxOps
    /\ \E m \in {i \in Ids : objs[i].exists} :
         Apply(delete(Cur, m), "delete", m, FALSE, NoArgs)
    /\ UNCHANGED <<queryVars, cacheVars>>

Update ==
    /\ nops < MaxOps
    /\ \E m \in {i \in Ids : objs[i].exists} :
         \E attributes \in AttrDicts :
            Apply(update(Cur, m, attributes), "update", m, TRUE, attributes)
    /\ UNCHANGED <<queryVars, cacheVars>>

\* The variables of the other specifications, at rest.
QueryRest ==
    /\ table = <<>>
    /\ qcall = [op |-> "idle"]
    /\ qres = [kind |-> "none"]
CacheRest ==
    /\ now = 0
    /\ cache = {}
    /\ runs = 0
    /\ req = [op |-> "none"]
    /\ seen = <<>>

\* The session starts with some rows committed earlier and loaded.
InitSession ==
    /\ \E n \in 0..MaxModels :
         db = [i \in Ids |-> IF i <= n THEN Seed ELSE Absent]
    /\ objs = db
    /\ new = {}
    /\ deleted = {}
    /\ commits = 0
    /\ nops = 0
    /\ last = [op |-> "none", out |-> "ok", ret |-> 0, model |-> 0,
               given |-> FALSE, attrs |-> NoArgs,
               pre |-> [objs |-> db, db |-> db, new |-> {}, deleted |-> {},
                        commits |-> 0]]
    /\ QueryRest
    /\ CacheRest

NextSession == Create \/ Delete \/ Update
SpecSession == InitSession /\ [][NextSession]_vars

(***************************************************************************)
(* Queries.  The table of the model has the columns id (the primary key)   *)
(* and a, and a relation "items" to child rows; a row of the table is      *)
(* [id, a, n] with n the number of its child rows.                         *)
(***************************************************************************)
MaxRows == 3        \* rows of the table
DefaultLimit == 100 \* get_all's default limit

QCols == {"id", "a"}
QVals == {0, 1}
ChildCounts == {1, 2}
Rows == [id : 1..MaxRows, a : QVals, n : ChildCounts]
\* the table, in the order the database yields its rows: row i has id i
Tables ==
    UNION {{t \in [1..k -> Rows] : \A i \in 1..k : t[i].id = i} : k \in 0..MaxRows}

\* The join_ argument: None, or a set, list, tuple or str; names holds the
\* entries (for a str: the string itself, none when it is empty).
JoinNames == {"items", "ghost"}
\* the _join_<name> methods the repository subclass defines
JoinHandlers == {"items"}
NoJoin == [t |-> "None", names |-> {}]
JoinArgs ==
    {NoJoin}
    \cup [t : {"set", "list", "tuple"}, names : SUBSET JoinNames]
    \cup [t : {"str"}, names : {{}, {"items"}, {"ghost"}}]
\* the join_ arguments the query calls are tried with
QueryJoinArgs ==
    {j \in JoinArgs :
        /\ Cardinality(j.names) <= 1
        /\ j.t \in {"None", "set"} \/ (j.t = "list" /\ j.names = {"items"})}

\* A value of the where mapping: a scalar, or a dict that may hold "$gt"
\* and "$lt" (gt and lt are 0 when the key is missing).
IntVal(v) == [t |-> "int", v |-> v, keys |-> {}, gt |-> 0, lt |-> 0]
DictVal(keys, gt, lt) ==
    [t |-> "dict", v |-> 0, keys |-> keys,
     gt |-> IF "$gt" \in keys THEN gt ELSE 0,
     lt |-> IF "$lt" \in keys THEN lt ELSE 0]
WhereVals ==
    {IntVal(v) : v \in QVals}
    \cup {DictVal(ks, g, l) : ks \in SUBSET {"$gt", "$lt"}, g \in QVals, l \in QVals}
\* the where argument: None (given = FALSE) or a mapping from columns
Wheres ==
    {[given |-> FALSE, m |-> <<>>]}
    \cup {[given |-> TRUE, m |-> f] :
            f \in UNION {[ks -> WhereVals \cup {IntVal(i) : i \in 1..MaxRows}] :
                            ks \in SUBSET QCols}}
WhereInputs ==
    {w \in Wheres :
        /\ "id" \in DOMAIN w.m => w.m["id"].t = "int" /\ w.m["id"].v >= 1
        /\ "a" \in DOMAIN w.m => w.m["a"] \in WhereVals}

\* the order_by argument: None (given = FALSE) or (column, direction)
Lower(str) == IF str = "DESC" THEN "desc" ELSE IF str = "ASC" THEN "asc" ELSE str
OrderBys ==
    {[given |-> FALSE, column |-> "id", direction |-> "asc"],
     [given |-> TRUE, column |-> "a", direction |-> "asc"],
     [given |-> TRUE, column |-> "a", direction |-> "DESC"],
     [given |-> TRUE, column |-> "id", direction |-> "desc"]}
Skips == {0, 1}
Limits == {1, 2, DefaultLimit}

(***************************************************************************)
(* The Select object: the clauses the repository has added so far.         *)
(***************************************************************************)
\* select(self.model_class)
select == [joins |-> {}, conds |-> {}, order |-> <<>>,
           has_offset |-> FALSE, offset |-> 0,
           has_limit |-> FALSE, limit |-> 0]

\* a range that excludes its bounds
between_exclusive(col, lo, hi) == [col |-> col, kind |-> "between_excl", lo |-> lo, hi |-> hi,
                                   val |-> IntVal(0)]
\* between(column, lo, hi): lo <= column <= hi
between(col, lo, hi) == [col |-> col, kind |-> "between", lo |-> lo, hi |-> hi,
                         val |-> IntVal(0)]
\* column == value
equals(col, v) == [col |-> col, kind |-> "eq", lo |-> 0, hi |-> 0, val |-> v]

\* one condition of get_all's where loop
where_condition(k, v) ==
    IF v.t = "dict" /\ "$gt" \in v.keys /\ "$lt" \in v.keys
    THEN between(k, v.gt, v.lt)
    ELSE equals(k, v)

\* whether a row satisfies a condition; an integer column never equals a
\* dict (no row is selected by such a comparison)
Holds(c, r) ==
    CASE c.kind = "between" -> c.lo <= r[c.col] /\ r[c.col] <= c.hi
      [] c.kind = "between_excl" -> c.lo < r[c.col] /\ r[c.col] < c.hi
      [] OTHER -> c.val.t = "int" /\ r[c.col] = c.val.v

\* the join handler _join_items: one result row per child row
RECURSIVE Repeat(_, _)
Repeat(r, k) == IF k = 0 THEN <<>> ELSE <<r>> \o Repeat(r, k - 1)
RECURSIVE JoinItems(_)
JoinItems(rows) ==
    IF rows = <<>> THEN <<>>
    ELSE Repeat(Head(rows), Head(rows).n) \o JoinItems(Tail(rows))

\* ORDER BY: a stable insertion sort on one column
Before(x, y, o) == IF o.desc THEN x[o.col] >= y[o.col] ELSE x[o.col] <= y[o.col]
RECURSIVE Insert(_, _, _)
Insert(r, sorted, o) ==
    IF sorted = <<>> THEN <<r>>
    ELSE IF Before(Head(sorted), r, o) THEN <<Head(sorted)>> \o Insert(r, Tail(sorted), o)
    ELSE <<r>> \o sorted
RECURSIVE SortBy(_, _)
SortBy(rows, o) ==
    IF rows = <<>> THEN <<>>
    ELSE Insert(rows[Len(rows)], SortBy(SubSeq(rows, 1, Len(rows) - 1), o), o)

Drop(rows, k) == SubSeq(rows, k + 1, Len(rows))
Take(rows, k) == SubSeq(rows, 1, IF k < Len(rows) THEN k ELSE Len(rows))

\* an execution that applies OFFSET and LIMIT in the order get_all adds
\* them, before WHERE and ORDER BY
Execute_limit_first(q, tbl) ==
    LET joined == IF "items" \in q.joins THEN JoinItems(tbl) ELSE tbl
        skipped == IF q.has_offset THEN Drop(joined, q.offset) ELSE joined
        limited == IF q.has_limit THEN Take(skipped, q.limit) ELSE skipped
        filtered == SelectSeq(limited, LAMBDA r : \A c \in q.conds : Holds(c, r))
    IN  IF q.order = <<>> THEN filtered ELSE SortBy(filtered, q.order[1])

\* What the database yields for a Select: FROM/JOIN, WHERE, ORDER BY,
\* OFFSET, LIMIT, whatever the order in which the clauses were added.
Execute(q, tbl) ==
    LET joined == IF "items" \in q.joins THEN JoinItems(tbl) ELSE tbl
        filtered == SelectSeq(joined, LAMBDA r : \A c \in q.conds : Holds(c, r))
        ordered == IF q.order = <<>> THEN filtered ELSE SortBy(filtered, q.order[1])
        skipped == IF q.has_offset THEN Drop(ordered, q.offset) ELSE ordered
    IN  IF q.has_limit THEN Take(skipped, q.limit) ELSE skipped

\* Result.unique(): the first occurrence of every identity, in order
RECURSIVE Unique(_)
Unique(rows) ==
    IF rows = <<>> THEN <<>>
    ELSE LET front == Unique(SubSeq(rows, 1, Len(rows) - 1))
             r == rows[Len(rows)]
         IN  IF \E i \in 1..Len(front) : front[i].id = r.id
             THEN front ELSE Append(front, r)

(***************************************************************************)
(* The repository's query helpers.  A result is [kind, value, raw, joins]: *)
(* kind "list" / "one" / "query" or the name of the error raised, value    *)
(* the records returned, raw the rows the database yielded, joins the      *)
(* joins of the query a helper returned.                                   *)
(***************************************************************************)
Raise(error) == [kind |-> error, value |-> <<>>, raw |-> <<>>, joins |-> {}]

\* not join_
Falsy(j) == j.t = "None" \/ j.names = {}

\* _add_join_to_query, reduced over the set: getattr(self, '_join_' + name)
\* raises AttributeError for a name without handler
add_joins(q, names) ==
    IF names \subseteq JoinHandlers
    THEN [kind |-> "query", q |-> [q EXCEPT !.joins = @ \cup names]]
    ELSE [kind |-> "AttributeError", q |-> q]

\* a _maybe_join that checks the type of every join_ but None
_maybe_join_type_first(q, j) ==
    IF j.t = "None" THEN [kind |-> "query", q |-> q]
    ELSE IF j.t # "set" THEN [kind |-> "TypeError", q |-> q]
    ELSE add_joins(q, j.names)

\* _maybe_join(query, join_)
_maybe_join(q, j) ==
    IF Falsy(j) THEN [kind |-> "query", q |-> q]
    ELSE IF j.t # "set" THEN [kind |-> "TypeError", q |-> q]
    ELSE add_joins(q, j.names)

\* _query(join_): order_ is never passed, so _maybe_ordered adds nothing
_query(j) == _maybe_join(select, j)

\* _all, all_unique, _one
_all(q, tbl) ==
    LET rows == Execute(q, tbl)
    IN  [kind |-> "list", value |-> rows, raw |-> rows, joins |-> q.joins]
\* an all_unique that forgets unique()
all_unique_raw(q, tbl) ==
    LET rows == Execute(q, tbl)
    IN  [kind |-> "list", value |-> rows, raw |-> rows, joins |-> q.joins]
all_unique(q, tbl) ==
    LET rows == Execute(q, tbl)
    IN  [kind |-> "list", value |-> Unique(rows), raw |-> rows, joins |-> q.joins]
_one(q, tbl) ==
    LET rows == Execute(q, tbl)
    IN  IF Len(rows) = 0 THEN Raise("NoResultFound")
        ELSE IF Len(rows) > 1 THEN Raise("MultipleResultsFound")
        ELSE [kind |-> "one", value |-> rows, raw |-> rows, joins |-> q.joins]

\* get_all(skip, limit, join_, where, order_by)
get_all(tbl, skip, limit, j, where, order_by) ==
    LET built == _query(j)
        q1 == [built.q EXCEPT !.has_offset = TRUE, !.offset = skip,
                              !.has_limit = TRUE, !.limit = limit]
        q2 == IF where.given
              THEN [q1 EXCEPT !.conds =
                        @ \cup {where_condition(k, where.m[k]) : k \in DOMAIN where.m}]
              ELSE q1
        q3 == IF order_by.given
              THEN [q2 EXCEPT !.order =
                        Append(@, [col |-> order_by.column,
                                   desc |-> Lower(order_by.direction) = "desc"])]
              ELSE q2
    IN  IF built.kind # "query" THEN Raise(built.kind)
        ELSE IF j.t # "None" THEN all_unique(q3, tbl)
        ELSE _all(q3, tbl)

\* _get_by(query, field, value)
_get_by(q, field, value) == [q EXCEPT !.conds = @ \cup {equals(field, IntVal(value))}]

\* get_by(field, value, join_, unique)
get_by(tbl, field, value, j, unique) ==
    LET built == _query(j)
        q1 == _get_by(built.q, field, value)
    IN  IF built.kind # "query" THEN Raise(built.kind)
        ELSE IF j.t # "None" THEN all_unique(q1, tbl)
        ELSE IF unique THEN _one(q1, tbl)
        ELSE _all(q1, tbl)

(***************************************************************************)
(* The query specification: one call at a time on a repository built for   *)
(* the unit of work.                                                       *)
(***************************************************************************)
Idle == [op |-> "idle"]
NoResult == [kind |-> "none"]

GetAll ==
    /\ qcall = Idle
    /\ \E skip \in Skips, limit \in Limits, j \in QueryJoinArgs,
          where \in WhereInputs, order_by \in OrderBys :
         /\ qcall' = [op |-> "get_all", skip |-> skip, limit |-> limit, join |-> j,
                      where |-> where, order_by |-> order_by]
         /\ qres' = get_all(table, skip, limit, j, where, order_by)
    /\ UNCHANGED <<table, sessionVars, cacheVars>>

GetBy ==
    /\ qcall = Idle
    /\ \E field \in QCols, value \in 0..MaxRows, j \in QueryJoinArgs, unique \in BOOLEAN :
         /\ qcall' = [op |-> "get_by", field |-> field, value |-> value, join |-> j,
                      unique |-> unique]
         /\ qres' = get_by(table, field, value, j, unique)
    /\ UNCHANGED <<table, sessionVars, cacheVars>>

MaybeJoin ==
    /\ qcall = Idle
    /\ \E j \in JoinArgs :
         /\ qcall' = [op |-> "maybe_join", join |-> j]
         /\ qres' = LET r == _maybe_join(select, j)
                    IN  IF r.kind = "query"
                        THEN [kind |-> "query", value |-> <<>>, raw |-> <<>>,
                              joins |-> r.q.joins]
                        ELSE Raise(r.kind)
    /\ UNCHANGED <<table, sessionVars, cacheVars>>

\* The call has returned; the next unit of work builds its repository.
NewRepository ==
    /\ qcall # Idle
    /\ qcall' = Idle
    /\ qres' = NoResult
    /\ UNCHANGED <<table, sessionVars, cacheVars>>

SessionRest ==
    /\ objs = [i \in Ids |-> Absent]
    /\ db = [i \in Ids |-> Absent]
    /\ new = {}
    /\ deleted = {}
    /\ commits = 0
    /\ nops = 0
    /\ last = [op |-> "none"]

InitQuery ==
    /\ table \in Tables
    /\ qcall = Idle
    /\ qres = NoResult
    /\ SessionRest
    /\ CacheRest

NextQuery == GetAll \/ GetBy \/ MaybeJoin \/ NewRepository
SpecQuery == InitQuery /\ [][NextQuery]_vars

(***************************************************************************)
(* The health-check endpoint behind Cache.cached.                          *)
(***************************************************************************)
MaxTicks == 4       \* clock ticks
TTL == 120          \* ttl=120 of the decorator
TickLen == TTL \div 3
Tag == "GET_HEALTH_CHECK"
Test1Vals == {"a", "b"}
Test2Vals == {None, "x"}

\* the body of HealthCheck.get
get == [status |-> "ok"]

\* a key made of every query parameter
CacheKey_all_params(test1, test2) == <<Tag, test1, test2>>
\* identify={'query_params': ['test1']}: the key is the tag and test1
CacheKey(test1, test2) == <<Tag, test1>>

\* The cache layer: an entry is fresh for ttl seconds after it was stored.
Fresh(entry, t) == t - entry.stored < TTL
Lookup(c, key, t) == {e \in c : e.key = key /\ Fresh(e, t)}
Store(c, key, payload, t) ==
    {e \in c : e.key # key} \cup {[key |-> key, payload |-> payload, stored |-> t]}

Never == [any |-> FALSE, at |-> 0, payload |-> get]

\* One GET request through the decorator: answered from a fresh entry, or
\* by running the handler and storing its payload.
Request ==
    \E test1 \in Test1Vals, test2 \in Test2Vals :
        LET key == CacheKey(test1, test2)
            found == Lookup(cache, key, now)
            hit == found # {}
            payload == IF hit THEN (CHOOSE e \in found : TRUE).payload ELSE get
            this == [any |-> TRUE, at |-> now, payload |-> payload]
        IN  /\ cache' = IF hit THEN cache ELSE Store(cache, key, payload, now)
            /\ runs' = IF hit THEN runs ELSE runs + 1
            /\ req' = [op |-> "get", test1 |-> test1, test2 |-> test2, at |-> now,
                       hit |-> hit, payload |-> payload,
                       runsBefore |-> runs, cacheBefore |-> cache,
                       prevReq |-> seen[test1].req, prevRun |-> seen[test1].run]
            /\ seen' = [seen EXCEPT ![test1] =
                          [req |-> this, run |-> IF hit THEN @.run ELSE this]]
            /\ UNCHANGED <<now, sessionVars, queryVars>>

\* The response has been sent and time passes.
Tick ==
    /\ now < MaxTicks * TickLen
    /\ now' = now + TickLen
    /\ req' = [op |-> "none"]
    /\ UNCHANGED <<cache, runs, seen, sessionVars, queryVars>>

InitCache ==
    /\ now = 0
    /\ cache = {}
    /\ runs = 0
    /\ req = [op |-> "none"]
    /\ seen = [t \in Test1Vals |-> [req |-> Never, run |-> Never]]
    /\ SessionRest
    /\ QueryRest

NextCache == Request \/ Tick
SpecCache == InitCache /\ [][NextCache]_vars

(***************************************************************************)
(* Claims about create, delete and update, stated for SpecSession.         *)
(***************************************************************************)
CallDict == IF last.given THEN last.attrs ELSE NoArgs
SameSession(S) ==
    /\ objs = S.objs /\ db = S.db /\ new = S.new /\ deleted = S.deleted
    /\ commits = S.commits
\* the position of the first key of d that names the read-only property
FirstBad(d) ==
    IF \E i \in 1..Len(d) : d[i].k \in Properties
    THEN CHOOSE i \in 1..Len(d) :
            d[i].k \in Properties /\ \A j \in 1..(i - 1) : d[j].k \notin Properties
    ELSE Len(d) + 1

\* C1: create() and delete() leave the committed rows as they were and
\* call no commit; a call that commits is an update(); and while no commit
\* has happened the committed rows are those the session began with.
C1_CreateDeleteStageOnly ==
    /\ last.op \in {"create", "delete"} =>
          /\ db = last.pre.db
          /\ commits = last.pre.commits
          /\ last.pre.new \subseteq new
          /\ last.pre.deleted \subseteq deleted
    /\ commits # last.pre.commits => last.op = "update"
    /\ commits = 0 =>
          \E n \in 0..MaxModels : db = [i \in Ids |-> IF i <= n THEN Seed ELSE Absent]

\* a create and a delete are both staged and nothing has been committed
C1_Witness ==
    /\ last.op = "delete" /\ last.out = "ok"
    /\ new # {} /\ deleted # {}
    /\ commits = 0

C10_AsStated ==
    (last.op = "update" /\ last.out = "ok") =>
        /\ Staged(Cur) = {}
        /\ \A i \in last.pre.new : db[i].exists /\ db[i] = objs[i]
        /\ \A i \in last.pre.deleted : ~db[i].exists

\* C10 amended: after an update() that returns, nothing is staged, every
\* creation staged before it is committed, and every deletion staged
\* before it is committed except a deletion of the very model passed to
\* update(), which update's session.add(model) cancels: that row stays.
C10_UpdateCommitsTheSession ==
    (last.op = "update" /\ last.out = "ok") =>
        /\ Staged(Cur) = {}
        /\ \A i \in last.pre.new : db[i].exists /\ db[i] = objs[i]
        /\ \A i \in last.pre.deleted \ {last.model} : ~db[i].exists
        /\ last.model \in last.pre.deleted => db[last.model].exists

\* an update returned with a creation and another model's deletion staged
C10_Witness ==
    /\ last.op = "update" /\ last.out = "ok"
    /\ last.pre.new # {}
    /\ last.pre.deleted \ {last.model} # {}

(***************************************************************************)
(* Claims about the queries, stated for SpecQuery.                         *)
(***************************************************************************)
IdsOf(rows) == {rows[i].id : i \in 1..Len(rows)}
\* the records of the table with field equal to value
Matching(field, value) == SelectSeq(table, LAMBDA r : r[field] = value)
\* a join_ argument that builds a query: None, or a set of handled names
JoinBuilds(j) == j.t \in {"None", "set"} /\ j.names \subseteq JoinHandlers

\* C3 as stated: get_by with unique=True, whatever join_ is, raises "no
\* result" on zero matching records, returns the record on exactly one
\* and raises "multiple results" on more; with unique=False it returns the
\* list of all matching records.
C3_AsStated ==
    (qcall.op = "get_by" /\ JoinBuilds(qcall.join)) =>
        LET found == Matching(qcall.field, qcall.value)
        IN  IF qcall.unique
            THEN /\ Len(found) = 0 => qres.kind = "NoResultFound"
                 /\ Len(found) = 1 => qres.kind = "one" /\ qres.value = found
                 /\ Len(found) > 1 => qres.kind = "MultipleResultsFound"
            ELSE qres.kind = "list" /\ qres.value = found

Asks(w, r) ==
    \A k \in DOMAIN w.m :
        IF w.m[k].t = "dict" /\ {"$gt", "$lt"} \subseteq w.m[k].keys
        THEN w.m[k].gt <= r[k] /\ r[k] <= w.m[k].lt
        ELSE w.m[k].t = "int" /\ r[k] = w.m[k].v
Sorted(rows, o) ==
    \A i, j \in 1..Len(rows) :
        i < j => IF Lower(o.direction) = "desc"
                 THEN rows[i][o.column] >= rows[j][o.column]
                 ELSE rows[i][o.column] <= rows[j][o.column]
\* the filtered, ordered table of a get_all call
FilteredOrdered(c) ==
    LET kept == SelectSeq(table, LAMBDA r : Asks(c.where, r))
    IN  IF c.order_by.given
        THEN SortBy(kept, [col |-> c.order_by.column,
                           desc |-> Lower(c.order_by.direction) = "desc"])
        ELSE kept

\* C5: get_all returns at most limit records, all of them records that
\* pass the where filter, in order_by's order; with no join they are
\* exactly elements skip .. skip+limit-1 of the filtered, ordered table.
C5_GetAllPaginatesTheFilteredResult ==
    (qcall.op = "get_all" /\ qres.kind = "list") =>
        /\ Len(qres.value) <= qcall.limit
        /\ \A i \in 1..Len(qres.value) :
              /\ qres.value[i] \in Range(table)
              /\ Asks(qcall.where, qres.value[i])
        /\ qcall.order_by.given => Sorted(qres.value, qcall.order_by)
        /\ qcall.join.t = "None" =>
              LET all == FilteredOrdered(qcall)
              IN  /\ Sorted(all, qcall.order_by) \/ ~qcall.order_by.given
                  /\ IdsOf(all) = {r.id : r \in {x \in Range(table) : Asks(qcall.where, x)}}
                  /\ Len(qres.value) =
                        IF Len(all) - qcall.skip <= 0 THEN 0
                        ELSE IF Len(all) - qcall.skip < qcall.limit
                             THEN Len(all) - qcall.skip ELSE qcall.limit
                  /\ \A i \in 1..Len(qres.value) : qres.value[i] = all[qcall.skip + i]

\* a filtered, ordered, skipped and truncated page: one record is
\* filtered out, one skipped, one returned and one cut off by the limit
C5_Witness ==
    /\ qcall.op = "get_all" /\ qres.kind = "list"
    /\ qcall.join.t = "None"
    /\ qcall.where.given /\ qcall.order_by.given
    /\ qcall.skip = 1 /\ qcall.limit = 1
    /\ Len(qres.value) = 1
    /\ Len(FilteredOrdered(qcall)) = 2
    /\ Len(table) = 3
    /\ qres.value[1] # table[2]

\* C6: get_all with where = {field: {"$gt": a, "$lt": b}} returns only
\* records with a <= field <= b, a record is returned only if it passes
\* every key's condition, and a scalar or a dict lacking "$gt" or "$lt" is
\* the equality field == value; without join, skip or a reached limit the
\* records returned are all the records that pass.
C6_WhereRangeIsInclusive ==
    (qcall.op = "get_all" /\ qres.kind = "list") =>
        /\ \A i \in 1..Len(qres.value) : Asks(qcall.where, qres.value[i])
        /\ (qcall.join.t = "None" /\ qcall.skip = 0 /\ qcall.limit = DefaultLimit) =>
              IdsOf(qres.value) = {r.id : r \in {x \in Range(table) : Asks(qcall.where, x)}}

\* a range on a together with a condition on id returned a record whose a
\* lies on both bounds of the range
C6_Witness ==
    /\ qcall.op = "get_all" /\ qres.kind = "list"
    /\ qcall.where.given /\ DOMAIN qcall.where.m = {"id", "a"}
    /\ qcall.where.m["a"].t = "dict" /\ qcall.where.m["a"].keys = {"$gt", "$lt"}
    /\ Len(qres.value) = 1
    /\ qres.value[1].a = qcall.where.m["a"].gt
    /\ qres.value[1].a = qcall.where.m["a"].lt
    /\ Len(table) > 1

\* C7: with a join_ that is not None, get_all and get_by return every
\* model identity at most once: the first occurrence of each identity the
\* query yielded, in order; with join_ None the rows are returned as the
\* query yielded them.
C7_JoinedRowsAreDeduplicated ==
    (qcall.op \in {"get_all", "get_by"} /\ qres.kind = "list") =>
        IF qcall.join.t # "None"
        THEN /\ \A i, j \in 1..Len(qres.value) :
                    qres.value[i].id = qres.value[j].id => i = j
             /\ IdsOf(qres.value) = IdsOf(qres.raw)
             /\ \A i, j \in 1..Len(qres.value) :
                    i < j =>
                       \E k \in 1..Len(qres.raw) :
                          /\ qres.raw[k] = qres.value[j]
                          /\ \E h \in 1..(k - 1) : qres.raw[h] = qres.value[i]
        ELSE qres.value = qres.raw

\* the join multiplied the rows of two models and each came back once
C7_Witness ==
    /\ qcall.op = "get_all" /\ qres.kind = "list"
    /\ qcall.join = [t |-> "set", names |-> {"items"}]
    /\ Len(qres.raw) > Len(qres.value)
    /\ Len(qres.value) = 2

(***************************************************************************)
(* Claims about the cached health check, stated for SpecCache.             *)
(***************************************************************************)
\* C8 as stated: a request less than 120 seconds after an earlier request
\* with the same test1 is answered from the cache, with the earlier
\* payload and without running the handler; the body is {"status": "ok"}.
C8_AsStated ==
    req.op = "get" =>
        /\ req.payload = [status |-> "ok"]
        /\ (req.prevReq.any /\ req.at - req.prevReq.at < TTL) =>
              /\ req.hit
              /\ runs = req.runsBefore
              /\ req.payload = req.prevReq.payload

\* C8 amended: a request less than 120 seconds after an earlier request
\* with the same test1 that ran the handler (and so stored the entry) is
\* answered from the cache, with that payload and without running the
\* handler, whatever test2 is; a request that is not answered from the
\* cache runs the handler once and leaves the entries of other test1
\* values alone; the body is always {"status": "ok"}.
C8_FreshEntryAnswersWithoutHandler ==
    req.op = "get" =>
        /\ req.payload = [status |-> "ok"]
        /\ (req.prevRun.any /\ req.at - req.prevRun.at < TTL) =>
              /\ req.hit
              /\ runs = req.runsBefore
              /\ cache = req.cacheBefore
              /\ req.payload = req.prevRun.payload
        /\ ~req.hit =>
              /\ runs = req.runsBefore + 1
              /\ \A t \in Test1Vals \ {req.test1} :
                    \A e \in req.cacheBefore :
                       e.key = CacheKey(t, req.test2) => e \in cache
        /\ req.hit => req.prevRun.any /\ req.at - req.prevRun.at < TTL

\* a request with another test2 was answered from the entry stored 80
\* seconds earlier, while another test1 has an entry of its own
C8_Witness ==
    /\ req.op = "get" /\ req.hit
    /\ req.test2 # None
    /\ req.at - req.prevRun.at = 2 * TickLen
    /\ runs = 2
    /\ Cardinality(cache) = 2

====
